---- MODULE Spec2Model ----
(***************************************************************************)
(* Memo lifecycle and ordered hot stack of memo-stack (src/app.rs,         *)
(* src/database.rs, src/models.rs).  The state is the MemoApp struct       *)
(* (memo map, hot stack, draft text, configured capacity) together with    *)
(* the SQLite tables it mirrors (memos, hot_stack_state) and the wall      *)
(* clock.  One action per public operation of MemoApp; every action runs   *)
(* the whole handler, its database writes and its nested calls included.   *)
(***************************************************************************)
EXTENDS Integers, Sequences, FiniteSets, TLC

(* ---------------------------------------------------------------- bounds *)
MaxId == 2          \* ids handed out by the memos table: 1..MaxId
MaxCap == 2         \* configured max_hot_count ranges over 0..MaxCap
MaxTime == 1        \* the clock (in minutes) ranges over 0..MaxTime
MaxDelay == 1       \* delays offered to capture: Some(0)..Some(MaxDelay)
MaxCaptures == 3    \* captures in the runs that only capture and promote
MaxFail == 6        \* the storage call that fails: none, or call 1..MaxFail of a handler
MaxSkew == 1        \* minutes between the two clock reads of one handler
MaxInstant == 3     \* the monotonic clock (in seconds) ranges over 0..MaxInstant
MaxInterval == 2    \* configured cold_spotlight_interval_seconds: 0..MaxInterval
MaxText == 4        \* characters the user types into the input field

Ids == 1..MaxId
Caps == 0..MaxCap

(* ------------------------------------------------------------ Option<T> *)
None == <<>>
Some(x) == <<x>>
is_some(o) == o # <<>>
unwrap(o) == o[1]

(* ------------------------------------------------------ text as Vec<char> *)
NL == "\n"
SP == " "
is_whitespace(c) == c \in {NL, SP}

RECURSIVE trim_start(_)
trim_start(s) ==
    IF s = <<>> THEN s
    ELSE IF is_whitespace(Head(s)) THEN trim_start(Tail(s)) ELSE s

RECURSIVE trim_end(_)
trim_end(s) ==
    IF s = <<>> THEN s
    ELSE IF is_whitespace(s[Len(s)]) THEN trim_end(SubSeq(s, 1, Len(s) - 1)) ELSE s

trim(s) == trim_end(trim_start(s))

\* str::find('\n'): 1-based index of the first line break, 0 when there is none
find_newline(s) ==
    IF \E i \in 1..Len(s) : s[i] = NL
    THEN CHOOSE i \in 1..Len(s) : s[i] = NL /\ \A j \in 1..(i - 1) : s[j] # NL
    ELSE 0

\* MemoApp::parse_memo_text applied to a text
parse_memo_text(raw) ==
    LET text == trim(raw)
        nl == find_newline(text)
    IN  IF nl > 0
        THEN [title |-> trim(SubSeq(text, 1, nl - 1)),
              body |-> trim_end(SubSeq(text, nl + 1, Len(text)))]
        ELSE [title |-> text, body |-> <<>>]

\* joins title and body with a space
replace_text_space(memo) ==
    IF memo.body = <<>> THEN memo.title ELSE memo.title \o <<SP>> \o memo.body

\* the text replace_memo puts into the input field
replace_text(memo) ==
    IF memo.body = <<>> THEN memo.title ELSE memo.title \o <<NL>> \o memo.body

(* --------------------------------------------------------- Vec<i32> ops *)
RECURSIVE retain_ne(_, _)
\* Vec::retain(|&x| x != id)
retain_ne(s, id) ==
    IF s = <<>> THEN <<>>
    ELSE IF Head(s) = id THEN retain_ne(Tail(s), id)
         ELSE <<Head(s)>> \o retain_ne(Tail(s), id)

\* Vec::insert(0, id)
insert_front(s, id) == <<id>> \o s

\* Vec::pop: the vector without its last element
pop_back(s) == SubSeq(s, 1, Len(s) - 1)

\* iter().position(|&x| x == id): 1-based, 0 when absent
position(s, id) ==
    IF \E i \in 1..Len(s) : s[i] = id
    THEN CHOOSE i \in 1..Len(s) : s[i] = id /\ \A j \in 1..(i - 1) : s[j] # id
    ELSE 0

\* Vec::swap(i, j), 1-based
swap(s, i, j) == [k \in 1..Len(s) |-> IF k = i THEN s[j] ELSE IF k = j THEN s[i] ELSE s[k]]

(* ------------------------------------------------------------- MemoData *)
Titles == {<<"a">>}
Bodies == {<<"b">>}
Delays == {None} \cup {Some(m) : m \in 0..MaxDelay}
Drafts == {<<>>, <<"a", NL, "b">>}
Chars == {"a", SP, NL}
Texts == UNION {[1..n -> Chars] : n \in 0..MaxText}

\* an unknown tag loads as Cold
from_string_cold(s) ==
    CASE s = "hot" -> "Hot"
      [] s = "cold" -> "Cold"
      [] s = "done" -> "Done"
      [] s = "delayed" -> "Delayed"
      [] OTHER -> "Cold"

\* MemoStatus::from_string: an unknown tag loads as Hot
from_string(s) ==
    CASE s = "hot" -> "Hot"
      [] s = "cold" -> "Cold"
      [] s = "done" -> "Done"
      [] s = "delayed" -> "Delayed"
      [] OTHER -> "Hot"

(* ------------------------------------------------------------- variables *)
VARIABLES
    max_hot_count,   \* Config::max_hot_count, fixed at startup
    memos,           \* MemoApp::memos, id -> MemoData
    hot_stack,       \* MemoApp::hot_stack, front first
    new_memo_text,   \* MemoApp::new_memo_text, the unsaved draft
    db_memos,        \* table memos, id -> row
    db_stack,        \* hot_stack_state.stack_json
    db_seq,          \* AUTOINCREMENT sequence of table memos: largest id ever given
    now,             \* wall clock, minutes
    last,            \* the operation that ran last: [op, id, ok]; for load_state,
                     \* id is the number of stack entries the load dropped
    cold_spotlight_interval_seconds,  \* Config, fixed at startup
    current_spotlight_memo,           \* MemoApp::current_spotlight_memo
    last_spotlight_update,            \* MemoApp::last_spotlight_update
    instant,         \* Instant::now(), the monotonic clock, seconds
    has_spotlight,   \* whether the last frame of the Hot tab showed the spotlight
    filtered,        \* what get_filtered_memos returned last: [status, search, memos]
    delay_input      \* MemoApp::delay_input, the text of the delay field

\* what the tabs show, and the clock they read
view == <<cold_spotlight_interval_seconds, current_spotlight_memo, last_spotlight_update,
          instant, has_spotlight, filtered, delay_input>>

vars == <<max_hot_count, memos, hot_stack, new_memo_text, db_memos, db_stack, db_seq, now, last,
          cold_spotlight_interval_seconds, current_spotlight_memo, last_spotlight_update,
          instant, has_spotlight, filtered, delay_input>>

(* One handler runs on a record of the state it may touch.  fail is the    *)
(* number of the storage call that returns an error (0: none does); ok     *)
(* turns FALSE there, and every later step of the handler is skipped, as    *)
(* the ? operator returns early.  skew is how far the clock moves between  *)
(* the handler's two reads of Utc::now().                                  *)
World(f, skew) ==
    [max_hot_count |-> max_hot_count, memos |-> memos, hot_stack |-> hot_stack,
     new_memo_text |-> new_memo_text, db_memos |-> db_memos, db_stack |-> db_stack,
     db_seq |-> db_seq, now |-> now, ok |-> TRUE, calls |-> 0, fail |-> f, skew |-> skew]

db_fails(w) == w.calls + 1 = w.fail
db_error(w) == [w EXCEPT !.ok = FALSE, !.calls = @ + 1]

\* the handler's second clock read
clock_again(w) ==
    [w EXCEPT !.now = IF w.now + w.skew <= MaxTime THEN w.now + w.skew ELSE w.now]

(* ----------------------------------------------------------- database.rs *)
save_hot_stack(w) ==
    IF ~w.ok THEN w
    ELSE IF db_fails(w) THEN db_error(w)
    ELSE [w EXCEPT !.calls = @ + 1, !.db_stack = w.hot_stack]

\* a memos table whose id is the largest rowid in use plus one
database_add_memo_rowid(w, title, body, delay_minutes) ==
    IF ~w.ok THEN w
    ELSE IF db_fails(w) THEN db_error(w)
    ELSE LET in_use == DOMAIN w.db_memos
             new_id == IF in_use = {} THEN 1
                       ELSE (CHOOSE m \in in_use : \A i \in in_use : i <= m) + 1
             row == [id |-> new_id, title |-> title, body |-> body,
                     status |-> IF is_some(delay_minutes) THEN "delayed" ELSE "hot",
                     creation_date |-> w.now, moved_to_done_date |-> None,
                     delay_minutes |-> delay_minutes]
         IN  [w EXCEPT !.calls = @ + 1, !.db_seq = new_id,
                       !.db_memos = (new_id :> row) @@ w.db_memos]

database_add_memo(w, title, body, delay_minutes) ==
    IF ~w.ok THEN w
    ELSE IF db_fails(w) THEN db_error(w)
    ELSE LET new_id == w.db_seq + 1
             row == [id |-> new_id, title |-> title, body |-> body,
                     status |-> IF is_some(delay_minutes) THEN "delayed" ELSE "hot",
                     creation_date |-> w.now, moved_to_done_date |-> None,
                     delay_minutes |-> delay_minutes]
         IN  [w EXCEPT !.calls = @ + 1, !.db_seq = new_id,
                       !.db_memos = (new_id :> row) @@ w.db_memos]

update_memo_status(w, id, status) ==
    IF ~w.ok THEN w
    ELSE LET w1 == IF status = "Done" THEN clock_again(w) ELSE w
             w2 == [w1 EXCEPT !.calls = @ + 1]
         IN  IF db_fails(w) THEN db_error(w1)
             ELSE IF id \notin DOMAIN w.db_memos THEN w2
             ELSE CASE status = "Done" ->
                         [w2 EXCEPT !.db_memos[id].status = "done",
                                    !.db_memos[id].moved_to_done_date = Some(w2.now)]
                    [] status = "Hot" ->
                         [w2 EXCEPT !.db_memos[id].status = "hot",
                                    !.db_memos[id].moved_to_done_date = None]
                    [] status = "Cold" ->
                         [w2 EXCEPT !.db_memos[id].status = "cold"]
                    [] status = "Delayed" ->
                         [w2 EXCEPT !.db_memos[id].status = "delayed"]

database_delete_memo(w, id) ==
    IF ~w.ok THEN w
    ELSE IF db_fails(w) THEN db_error(w)
    ELSE [w EXCEPT !.calls = @ + 1,
                   !.db_memos = [i \in (DOMAIN w.db_memos) \ {id} |-> w.db_memos[i]]]

\* column creation_date is TEXT: the RFC 3339 text of minute t is written t,
\* and NotATimestamp stands for any text that is not RFC 3339
NotATimestamp == -1
parse_from_rfc3339(s) == IF s >= 0 THEN Some(s) ELSE None

\* the row of table memos read back as MemoData; the RFC 3339 text of a
\* timestamp and the INTEGER of a delay parse back to the value written, and
\* a creation_date that does not parse is replaced by Utc::now()
row_to_memo(row, load_time) ==
    [id |-> row.id, title |-> row.title, body |-> row.body,
     status |-> from_string(row.status),
     creation_date |-> IF is_some(parse_from_rfc3339(row.creation_date))
                       THEN unwrap(parse_from_rfc3339(row.creation_date))
                       ELSE load_time,
     moved_to_done_date |-> row.moved_to_done_date,
     delay_minutes |-> row.delay_minutes]

\* "Clean up hot stack - remove any IDs that don't exist or aren't hot"
retain_hot(s, loaded) ==
    LET keep(id) == id \in DOMAIN loaded /\ loaded[id].status = "Hot"
    IN  SelectSeq(s, keep)

\* keeps every persisted id
database_load_state_keep(w) ==
    LET loaded == [id \in DOMAIN w.db_memos |-> row_to_memo(w.db_memos[id], w.now)]
    IN  [w EXCEPT !.memos = loaded, !.hot_stack = w.db_stack]

database_load_state(w) ==
    LET loaded == [id \in DOMAIN w.db_memos |-> row_to_memo(w.db_memos[id], w.now)]
    IN  [w EXCEPT !.memos = loaded, !.hot_stack = retain_hot(w.db_stack, loaded)]

(* ---------------------------------------------------------------- app.rs *)
\* leaves the archived id in the stack
move_to_cold_keep(w, id) ==
    IF ~w.ok THEN w
    ELSE LET w1 == IF id \in DOMAIN w.memos
                   THEN update_memo_status([w EXCEPT !.memos[id].status = "Cold"], id, "Cold")
                   ELSE w
         IN  save_hot_stack(w1)

\* writes the status to storage first and to the memory after it
move_to_cold_db_first(w, id) ==
    IF ~w.ok THEN w
    ELSE LET w1 == IF id \in DOMAIN w.memos THEN update_memo_status(w, id, "Cold") ELSE w
             w2 == IF ~w1.ok THEN w1
                   ELSE IF id \in DOMAIN w1.memos
                   THEN [w1 EXCEPT !.memos[id].status = "Cold",
                                   !.hot_stack = retain_ne(w1.hot_stack, id)]
                   ELSE [w1 EXCEPT !.hot_stack = retain_ne(w1.hot_stack, id)]
         IN  save_hot_stack(w2)

move_to_cold(w, id) ==
    IF ~w.ok THEN w
    ELSE LET w1 == IF id \in DOMAIN w.memos
                   THEN update_memo_status([w EXCEPT !.memos[id].status = "Cold"], id, "Cold")
                   ELSE w
             w2 == IF ~w1.ok THEN w1
                   ELSE [w1 EXCEPT !.hot_stack = retain_ne(w1.hot_stack, id)]
         IN  save_hot_stack(w2)

\* evicts one push too late
evict_overflow_late(w) ==
    IF ~w.ok THEN w
    ELSE IF Len(w.hot_stack) > w.max_hot_count + 1
    THEN LET moved_id == w.hot_stack[Len(w.hot_stack)]
         IN  move_to_cold([w EXCEPT !.hot_stack = pop_back(w.hot_stack)], moved_id)
    ELSE w

\* evicts the front of the stack
evict_overflow_front(w) ==
    IF ~w.ok THEN w
    ELSE IF Len(w.hot_stack) > w.max_hot_count
    THEN LET moved_id == w.hot_stack[1]
         IN  move_to_cold([w EXCEPT !.hot_stack = Tail(w.hot_stack)], moved_id)
    ELSE w

RECURSIVE evict_overflow_all(_)
\* evicts until the stack fits
evict_overflow_all(w) ==
    IF ~w.ok THEN w
    ELSE IF Len(w.hot_stack) > w.max_hot_count
    THEN LET moved_id == w.hot_stack[Len(w.hot_stack)]
         IN  evict_overflow_all(
                 move_to_cold([w EXCEPT !.hot_stack = pop_back(w.hot_stack)], moved_id))
    ELSE w

\* "If hot stack is too big, move the last item to cold"
evict_overflow(w) ==
    IF ~w.ok THEN w
    ELSE IF Len(w.hot_stack) > w.max_hot_count
    THEN LET moved_id == w.hot_stack[Len(w.hot_stack)]
         IN  move_to_cold([w EXCEPT !.hot_stack = pop_back(w.hot_stack)], moved_id)
    ELSE w

\* every captured memo starts Delayed
initial_status_delayed(delay_minutes) == "Delayed"

\* the status a captured memo starts in
initial_status(delay_minutes) == IF is_some(delay_minutes) THEN "Delayed" ELSE "Hot"

add_memo(w, title, body, delay_minutes) ==
    IF ~w.ok THEN w
    ELSE LET w1 == database_add_memo(w, title, body, delay_minutes)
             new_id == w1.db_seq
             w2 == clock_again(w1)
             status == initial_status(delay_minutes)
             memo == [id |-> new_id, title |-> title, body |-> body, status |-> status,
                      creation_date |-> w2.now, moved_to_done_date |-> None,
                      delay_minutes |-> delay_minutes]
             w3 == [w2 EXCEPT !.memos = (new_id :> memo) @@ w2.memos]
         IN  IF ~w1.ok THEN w1
             ELSE IF status = "Hot"
             THEN save_hot_stack(evict_overflow(
                      [w3 EXCEPT !.hot_stack = insert_front(w3.hot_stack, new_id)]))
             ELSE w3

\* sets the status and leaves the completion time as it was
move_to_done_keep_date(w, id) ==
    IF ~w.ok THEN w
    ELSE LET w1 == IF id \in DOMAIN w.memos
                   THEN update_memo_status([w EXCEPT !.memos[id].status = "Done"], id, "Done")
                   ELSE w
             w2 == IF ~w1.ok THEN w1
                   ELSE [w1 EXCEPT !.hot_stack = retain_ne(w1.hot_stack, id)]
         IN  save_hot_stack(w2)

move_to_done(w, id) ==
    IF ~w.ok THEN w
    ELSE LET w1 == IF id \in DOMAIN w.memos
                   THEN update_memo_status(
                            [w EXCEPT !.memos[id].status = "Done",
                                      !.memos[id].moved_to_done_date = Some(w.now)],
                            id, "Done")
                   ELSE w
             w2 == IF ~w1.ok THEN w1
                   ELSE [w1 EXCEPT !.hot_stack = retain_ne(w1.hot_stack, id)]
         IN  save_hot_stack(w2)

\* pushes the id whether or not a memo has it
move_to_hot_unguarded(w, id) ==
    IF ~w.ok THEN w
    ELSE LET w1 == IF id \in DOMAIN w.memos
                   THEN update_memo_status(
                            [w EXCEPT !.memos[id].status = "Hot",
                                      !.memos[id].moved_to_done_date = None],
                            id, "Hot")
                   ELSE w
             w2 == IF ~w1.ok THEN w1
                   ELSE [w1 EXCEPT !.hot_stack = insert_front(w1.hot_stack, id)]
         IN  save_hot_stack(w2)

move_to_hot(w, id) ==
    IF ~w.ok THEN w
    ELSE IF id \in DOMAIN w.memos
    THEN LET w1 == update_memo_status(
                       [w EXCEPT !.memos[id].status = "Hot",
                                 !.memos[id].moved_to_done_date = None],
                       id, "Hot")
             w2 == IF ~w1.ok THEN w1
                   ELSE [w1 EXCEPT !.hot_stack = insert_front(w1.hot_stack, id)]
         IN  save_hot_stack(evict_overflow(w2))
    ELSE w

\* removes the memo from the memory before the row is deleted
delete_memo_memory_first(w, id) ==
    IF ~w.ok THEN w
    ELSE LET w1 == [w EXCEPT !.memos = [i \in (DOMAIN w.memos) \ {id} |-> w.memos[i]],
                             !.hot_stack = retain_ne(w.hot_stack, id)]
         IN  save_hot_stack(database_delete_memo(w1, id))

\* removes the memo and leaves its id in the stack
delete_memo_keep_stack(w, id) ==
    IF ~w.ok THEN w
    ELSE LET w1 == database_delete_memo(w, id)
             w2 == IF ~w1.ok THEN w1
                   ELSE [w1 EXCEPT !.memos = [i \in (DOMAIN w1.memos) \ {id} |-> w1.memos[i]]]
         IN  save_hot_stack(w2)

delete_memo(w, id) ==
    IF ~w.ok THEN w
    ELSE LET w1 == database_delete_memo(w, id)
             w2 == IF ~w1.ok THEN w1
                   ELSE [w1 EXCEPT !.memos = [i \in (DOMAIN w1.memos) \ {id} |-> w1.memos[i]],
                                   !.hot_stack = retain_ne(w1.hot_stack, id)]
         IN  save_hot_stack(w2)

\* moves the id to the front instead of one place up
shift_up_to_front(w, id) ==
    IF ~w.ok THEN w
    ELSE LET pos == position(w.hot_stack, id)
         IN  IF pos > 1
             THEN save_hot_stack(
                      [w EXCEPT !.hot_stack = insert_front(retain_ne(w.hot_stack, id), id)])
             ELSE w

shift_up_in_hot(w, id) ==
    IF ~w.ok THEN w
    ELSE LET pos == position(w.hot_stack, id)
         IN  IF pos > 1
             THEN save_hot_stack([w EXCEPT !.hot_stack = swap(w.hot_stack, pos - 1, pos)])
             ELSE w

move_to_top_in_hot(w, id) ==
    IF ~w.ok THEN w
    ELSE save_hot_stack(
             [w EXCEPT !.hot_stack = insert_front(retain_ne(w.hot_stack, id), id)])

replace_memo(w, id) ==
    IF ~w.ok THEN w
    ELSE LET parsed == parse_memo_text(w.new_memo_text)
             w1 == IF trim(w.new_memo_text) # <<>>
                   THEN add_memo(w, parsed.title, parsed.body, None)
                   ELSE w
         IN  IF ~w1.ok THEN w1
             ELSE IF id \in DOMAIN w1.memos
             THEN delete_memo([w1 EXCEPT !.new_memo_text = replace_text(w1.memos[id])], id)
             ELSE w1

\* the Add button: enabled for a draft that is not blank
add_parsed_memo(w, delay_minutes) ==
    LET parsed == parse_memo_text(w.new_memo_text)
        w1 == add_memo(w, parsed.title, parsed.body, delay_minutes)
    IN  IF w1.ok THEN [w1 EXCEPT !.new_memo_text = <<>>] ELSE w1

(* ---------------------------------------------------------- ui/tabs.rs *)
\* char::is_ascii_digit and the digit's value
Digits == {"0", "1", "2", "3", "4", "5", "6", "7", "8", "9"}
is_ascii_digit(c) == c \in Digits
digit_value(c) ==
    CASE c = "0" -> 0 [] c = "1" -> 1 [] c = "2" -> 2 [] c = "3" -> 3 [] c = "4" -> 4
      [] c = "5" -> 5 [] c = "6" -> 6 [] c = "7" -> 7 [] c = "8" -> 8 [] c = "9" -> 9

\* "Filter input to only allow digits and colons"
filter_delay_input(s) ==
    LET allowed(c) == is_ascii_digit(c) \/ c = ":"
    IN  SelectSeq(s, allowed)

\* str::split(':'): the parts between the colons, empty parts included
RECURSIVE split_colon(_)
split_colon(s) ==
    IF \A k \in 1..Len(s) : s[k] # ":" THEN <<s>>
    ELSE LET k == CHOOSE i \in 1..Len(s) : s[i] = ":" /\ \A j \in 1..(i - 1) : s[j] # ":"
         IN  <<SubSeq(s, 1, k - 1)>> \o split_colon(SubSeq(s, k + 1, Len(s)))

\* str::parse::<u32>: an optional plus sign and at least one digit (the
\* texts of the model are too short to overflow u32)
RECURSIVE decimal(_)
decimal(s) ==
    IF s = <<>> THEN 0
    ELSE decimal(SubSeq(s, 1, Len(s) - 1)) * 10 + digit_value(s[Len(s)])

parse_u32(s) ==
    LET t == IF s # <<>> /\ s[1] = "+" THEN Tail(s) ELSE s
    IN  IF t # <<>> /\ \A k \in 1..Len(t) : is_ascii_digit(t[k])
        THEN Some(decimal(t))
        ELSE None

parse_delay_input(s) ==
    IF s = <<"0", "0", ":", "0", "0">> THEN None
    ELSE LET parts == split_colon(s)
         IN  IF Len(parts) = 2
             THEN LET hours == parse_u32(parts[1])
                      minutes == parse_u32(parts[2])
                  IN  IF /\ is_some(hours) /\ is_some(minutes)
                         /\ unwrap(hours) < 100 /\ unwrap(minutes) < 100
                      THEN Some(unwrap(hours) * 60 + unwrap(minutes))
                      ELSE None
             ELSE None

\* skips the memos captured with a delay of 0 minutes
due_ids_positive(w) ==
    {id \in DOMAIN w.memos :
        /\ w.memos[id].status = "Delayed"
        /\ is_some(w.memos[id].delay_minutes)
        /\ unwrap(w.memos[id].delay_minutes) > 0
        /\ w.now >= w.memos[id].creation_date + unwrap(w.memos[id].delay_minutes)}

\* collects a memo only after its minute of promotion has passed
due_ids_late(w) ==
    {id \in DOMAIN w.memos :
        /\ w.memos[id].status = "Delayed"
        /\ is_some(w.memos[id].delay_minutes)
        /\ w.now > w.memos[id].creation_date + unwrap(w.memos[id].delay_minutes)}

\* the ids check_and_promote_delayed_memos collects
due_ids(w) ==
    {id \in DOMAIN w.memos :
        /\ w.memos[id].status = "Delayed"
        /\ is_some(w.memos[id].delay_minutes)
        /\ w.now >= w.memos[id].creation_date + unwrap(w.memos[id].delay_minutes)}

RECURSIVE promote_all(_, _)
\* "for id in to_promote { self.move_to_hot(id)?; }"
promote_all(w, to_promote) ==
    IF to_promote = <<>> THEN w
    ELSE promote_all(move_to_hot(w, Head(to_promote)), Tail(to_promote))

\* the orders in which the HashMap iteration may yield a set of ids
orders(S) == {o \in [1..Cardinality(S) -> S] : \A i, j \in 1..Cardinality(S) : i # j => o[i] # o[j]}

\* promotes the first collected memo only
promote_first(w, to_promote) ==
    IF to_promote = <<>> THEN w ELSE move_to_hot(w, Head(to_promote))

check_and_promote_delayed_memos(w, to_promote) == promote_all(w, to_promote)

\* MemoApp::load_state: the tables replace the memory, and the cleaned stack
\* is written back
load_state(w) == save_hot_stack(database_load_state(w))

(* ------------------------------------------------------- cold spotlight *)
\* what update_cold_spotlight and the Hot tab read of the application
Spotlit ==
    [cold_spotlight_interval_seconds |-> cold_spotlight_interval_seconds,
     current_spotlight_memo |-> current_spotlight_memo,
     last_spotlight_update |-> last_spotlight_update,
     instant |-> instant, memos |-> memos]

\* the values choose() can return: any Cold id, None when there is none
get_random_cold_memo_id(ms) ==
    LET cold_memo_ids == {id \in DOMAIN ms : ms[id].status = "Cold"}
    IN  IF cold_memo_ids = {} THEN {None} ELSE {Some(id) : id \in cold_memo_ids}

\* samples on every frame
update_cold_spotlight_every_frame(a, chosen) ==
    IF a.cold_spotlight_interval_seconds = 0 THEN a
    ELSE [a EXCEPT !.current_spotlight_memo = chosen,
                   !.last_spotlight_update = Some(a.instant)]

\* chosen is what get_random_cold_memo_id returns if it is called
update_cold_spotlight(a, chosen) ==
    IF a.cold_spotlight_interval_seconds = 0 THEN a
    ELSE LET should_update ==
                 IF a.last_spotlight_update = None THEN TRUE
                 ELSE a.instant - unwrap(a.last_spotlight_update)
                          >= a.cold_spotlight_interval_seconds
         IN  IF should_update
             THEN [a EXCEPT !.current_spotlight_memo = chosen,
                            !.last_spotlight_update = Some(a.instant)]
             ELSE a

\* shows the pick whatever its status
render_has_spotlight_any(a) ==
    /\ a.cold_spotlight_interval_seconds > 0
    /\ is_some(a.current_spotlight_memo)
    /\ unwrap(a.current_spotlight_memo) \in DOMAIN a.memos

\* has_spotlight of render_hot_tab
render_has_spotlight(a) ==
    /\ a.cold_spotlight_interval_seconds > 0
    /\ is_some(a.current_spotlight_memo)
    /\ unwrap(a.current_spotlight_memo) \in DOMAIN a.memos
    /\ a.memos[unwrap(a.current_spotlight_memo)].status = "Cold"

(* -------------------------------------------------- ui/tabs.rs: search *)
Statuses == {"Hot", "Cold", "Done", "Delayed"}

\* char::to_lowercase on the letters of the model
to_lowercase_char(c) == IF c = "A" THEN "a" ELSE IF c = "B" THEN "b" ELSE c
to_lowercase(s) == [i \in 1..Len(s) |-> to_lowercase_char(s[i])]

\* str::contains
contains(s, pat) == \E i \in 0..(Len(s) - Len(pat)) : SubSeq(s, i + 1, i + Len(pat)) = pat

\* Ord::cmp
compare(x, y) == IF x < y THEN "Less" ELSE IF x > y THEN "Greater" ELSE "Equal"

\* the comparator handed to sort_by: where a goes relative to b
sort_order(status, a, b) ==
    IF status = "Cold" THEN compare(b.creation_date, a.creation_date)
    ELSE IF is_some(a.moved_to_done_date) /\ is_some(b.moved_to_done_date)
         THEN compare(unwrap(b.moved_to_done_date), unwrap(a.moved_to_done_date))
    ELSE IF is_some(a.moved_to_done_date) THEN "Less"
    ELSE IF is_some(b.moved_to_done_date) THEN "Greater"
    ELSE compare(b.creation_date, a.creation_date)

\* x goes in front of the first element it is Less than
insert_sorted(ms, status, sorted, x) ==
    LET lesser == {i \in 1..Len(sorted) : sort_order(status, ms[x], ms[sorted[i]]) = "Less"}
        at == IF lesser = {} THEN Len(sorted) + 1
              ELSE CHOOSE i \in lesser : \A j \in lesser : i <= j
    IN  SubSeq(sorted, 1, at - 1) \o <<x>> \o SubSeq(sorted, at, Len(sorted))

\* slice::sort_by, a stable sort
RECURSIVE sort_by(_, _, _)
sort_by(ms, status, s) ==
    IF s = <<>> THEN <<>>
    ELSE insert_sorted(ms, status, sort_by(ms, status, SubSeq(s, 1, Len(s) - 1)), s[Len(s)])

\* the filter tells upper case from lower case
matches_case(memo, search) ==
    \/ contains(memo.title, search)
    \/ contains(memo.body, search)

matches(memo, search) ==
    \/ contains(to_lowercase(memo.title), to_lowercase(search))
    \/ contains(to_lowercase(memo.body), to_lowercase(search))

\* sorts both lists by creation_date
sort_by_creation(ms, status, s) == sort_by(ms, "Cold", s)

sort_for(ms, status, s) == sort_by(ms, status, s)

\* iter is the order in which the HashMap yields its ids; the result is the
\* ids of the (id, memo) pairs returned
get_filtered_memos(ms, status, search, iter) ==
    LET has_status(id) == ms[id].status = status
        collected == SelectSeq(iter, has_status)
        keep(id) == matches(ms[id], search)
        retained == IF trim(search) # <<>> THEN SelectSeq(collected, keep) ELSE collected
    IN  IF status \in {"Cold", "Done"} THEN sort_for(ms, status, retained) ELSE retained

(* ---------------------------------------------------------------- steps *)
\* the state a handler leaves behind
Store(w, op, id) ==
    /\ memos' = w.memos
    /\ hot_stack' = w.hot_stack
    /\ new_memo_text' = w.new_memo_text
    /\ db_memos' = w.db_memos
    /\ db_stack' = w.db_stack
    /\ db_seq' = w.db_seq
    /\ now' = w.now
    /\ last' = [op |-> op, id |-> id, ok |-> w.ok]
    /\ UNCHANGED max_hot_count

Commit(w, op, id) == Store(w, op, id) /\ UNCHANGED view

\* MemoApp::new starts without a spotlight
NewView ==
    /\ current_spotlight_memo' = None
    /\ last_spotlight_update' = None
    /\ has_spotlight' = FALSE
    /\ delay_input' = <<"0", "0", ":", "0", "0">>
    /\ UNCHANGED <<cold_spotlight_interval_seconds, instant, filtered>>

\* MemoApp::new on a fresh data directory: empty tables, configuration read once
InitConfig(caps, intervals) ==
    /\ max_hot_count \in caps
    /\ cold_spotlight_interval_seconds \in intervals
    /\ current_spotlight_memo = None
    /\ last_spotlight_update = None
    /\ instant = 0
    /\ has_spotlight = FALSE
    /\ filtered = [status |-> "Hot", search |-> <<>>, memos |-> <<>>]
    /\ delay_input = <<"0", "0", ":", "0", "0">>
    /\ memos = <<>>
    /\ hot_stack = <<>>
    /\ new_memo_text = <<>>
    /\ db_memos = <<>>
    /\ db_stack = <<>>
    /\ db_seq = 0
    /\ now = 0
    /\ last = [op |-> "new", id |-> 0, ok |-> TRUE]

\* the spotlight switched off
InitWith(caps) == InitConfig(caps, {0})

Init == InitWith(Caps)

(* The actions take the sets their inputs are drawn from: D the delays,    *)
(* I the ids, F the failing storage call, S the clock skews, and for       *)
(* capture the largest id the memos table may hand out.                    *)
AddMemo(D, F, S, limit) ==
    \E title \in Titles, body \in Bodies, delay \in D, f \in F, skew \in S :
        /\ db_seq < limit
        /\ LET w == add_memo(World(f, skew), title, body, delay)
           IN  Commit(w, "add_memo", IF w.db_seq > db_seq THEN w.db_seq ELSE 0)

MoveToCold(I, F) ==
    \E id \in I, f \in F : Commit(move_to_cold(World(f, 0), id), "move_to_cold", id)

MoveToDone(I, F, S) ==
    \E id \in I, f \in F, skew \in S :
        Commit(move_to_done(World(f, skew), id), "move_to_done", id)

MoveToHot(I, F) ==
    \E id \in I, f \in F : Commit(move_to_hot(World(f, 0), id), "move_to_hot", id)

DeleteMemo(I, F) ==
    \E id \in I, f \in F : Commit(delete_memo(World(f, 0), id), "delete_memo", id)

ShiftUpInHot(I, F) ==
    \E id \in I, f \in F : Commit(shift_up_in_hot(World(f, 0), id), "shift_up_in_hot", id)

MoveToTopInHot(I, F) ==
    \E id \in I, f \in F :
        Commit(move_to_top_in_hot(World(f, 0), id), "move_to_top_in_hot", id)

AddParsedMemo(D, F, S, limit) ==
    \E delay \in D, f \in F, skew \in S :
        /\ trim(new_memo_text) # <<>>
        /\ db_seq < limit
        /\ LET w == add_parsed_memo(World(f, skew), delay)
           IN  Commit(w, "add_parsed_memo", IF w.db_seq > db_seq THEN w.db_seq ELSE 0)

ReplaceMemo(I, F, S, limit) ==
    \E id \in I, f \in F, skew \in S :
        /\ trim(new_memo_text) # <<>> => db_seq < limit
        /\ Commit(replace_memo(World(f, skew), id), "replace_memo", id)

CheckAndPromoteDelayed(F) ==
    \E f \in F : \E to_promote \in orders(due_ids(World(f, 0))) :
        \E w \in {check_and_promote_delayed_memos(World(f, 0), to_promote)} :
            Commit(w, "check_and_promote_delayed_memos", 0)

\* the application is closed and started again with the same configuration:
\* on_exit saves the draft, MemoApp::new reads it back with the tables.  (A
\* start whose storage call fails leaves no MemoApp and changes no table.)
LoadState ==
    \E w \in {load_state(World(0, 0))} :
        Store(w, "load_state", Len(db_stack) - Len(w.hot_stack)) /\ NewView

\* the application is closed, config.yaml is edited, and it is started again
Reconfigure(C) ==
    \E cap \in C : \E w \in {load_state([World(0, 0) EXCEPT !.max_hot_count = cap])} :
        /\ max_hot_count' = w.max_hot_count
        /\ memos' = w.memos
        /\ hot_stack' = w.hot_stack
        /\ new_memo_text' = w.new_memo_text
        /\ db_memos' = w.db_memos
        /\ db_stack' = w.db_stack
        /\ db_seq' = w.db_seq
        /\ now' = w.now
        /\ last' = [op |-> "load_state", id |-> Len(db_stack) - Len(w.hot_stack), ok |-> w.ok]
        /\ NewView

\* the user edits the input field
EditDraft(T) ==
    \E text \in T :
        /\ new_memo_text' = text
        /\ last' = [op |-> "edit", id |-> 0, ok |-> TRUE]
        /\ UNCHANGED <<max_hot_count, memos, hot_stack, db_memos, db_stack, db_seq, now>>
        /\ UNCHANGED view

\* a minute passes
Tick ==
    /\ now < MaxTime
    /\ now' = now + 1
    /\ last' = [op |-> "tick", id |-> 0, ok |-> TRUE]
    /\ UNCHANGED <<max_hot_count, memos, hot_stack, new_memo_text, db_memos, db_stack, db_seq>>
    /\ UNCHANGED view

\* a tab renders its list: get_filtered_memos takes &self
GetFilteredMemos(St, Q) ==
    \E status \in St, search \in Q, iter \in orders(DOMAIN memos) :
        /\ filtered' = [status |-> status, search |-> search,
                        memos |-> get_filtered_memos(memos, status, search, iter)]
        /\ last' = [op |-> "get_filtered_memos", id |-> 0, ok |-> TRUE]
        /\ UNCHANGED <<max_hot_count, memos, hot_stack, new_memo_text, db_memos, db_stack,
                       db_seq, now>>
        /\ UNCHANGED <<cold_spotlight_interval_seconds, current_spotlight_memo,
                       last_spotlight_update, instant, has_spotlight, delay_input>>

\* the application is started on tables in which the moved_to_done_date of
\* row id is not a timestamp: the memo is loaded without one
LoadStateUndated(I) ==
    \E id \in I :
        /\ id \in DOMAIN db_memos
        /\ db_memos[id].status = "done"
        /\ LET rows == [db_memos EXCEPT ![id].moved_to_done_date = None]
               w == load_state([World(0, 0) EXCEPT !.db_memos = rows])
           IN  Store(w, "load_state", Len(db_stack) - Len(w.hot_stack)) /\ NewView

\* the application is started on tables in which row id carries a status
\* tag that MemoStatus does not know, a creation_date that is not a
\* timestamp, or both
UnknownTags == {"archived", "Hot"}
LoadStateMalformed(I) ==
    \E id \in I, tag \in UnknownTags \cup {"hot", "cold", "done", "delayed"},
       date \in {NotATimestamp} \cup 0..now :
        /\ id \in DOMAIN db_memos
        /\ tag \in UnknownTags \/ date = NotATimestamp
        /\ LET rows == [db_memos EXCEPT ![id].status = tag, ![id].creation_date = date]
               w == load_state([World(0, 0) EXCEPT !.db_memos = rows])
           IN  Store(w, "load_state", Len(db_stack) - Len(w.hot_stack)) /\ NewView

\* the user types into the delay field; the frame filters what was typed
EditDelayInput(T) ==
    \E text \in T :
        /\ delay_input' = filter_delay_input(text)
        /\ last' = [op |-> "edit_delay", id |-> 0, ok |-> TRUE]
        /\ UNCHANGED <<max_hot_count, memos, hot_stack, new_memo_text, db_memos, db_stack,
                       db_seq, now>>
        /\ UNCHANGED <<cold_spotlight_interval_seconds, current_spotlight_memo,
                       last_spotlight_update, instant, has_spotlight, filtered>>

\* the Add button of the Hot tab: the delay is parsed from the delay field
AddButton(F, S, limit) ==
    \E f \in F, skew \in S :
        /\ trim(new_memo_text) # <<>>
        /\ db_seq < limit
        /\ LET w == add_parsed_memo(World(f, skew), parse_delay_input(delay_input))
           IN  Commit(w, "add_parsed_memo", IF w.db_seq > db_seq THEN w.db_seq ELSE 0)

\* the process stops inside a handler, after its storage calls before call
\* f and before call f itself, and the application is started again: the
\* load reads the tables as the calls made so far left them
StopAndLoad(I, F) ==
    \E id \in I, f \in F, title \in Titles, body \in Bodies :
        \E w \in {add_memo(World(f, 0), title, body, None), move_to_cold(World(f, 0), id),
                  move_to_done(World(f, 0), id), move_to_hot(World(f, 0), id)} :
            /\ ~w.ok
            /\ w.db_seq <= MaxId
            /\ LET w2 == load_state([World(0, 0) EXCEPT !.db_memos = w.db_memos,
                                                        !.db_stack = w.db_stack,
                                                        !.db_seq = w.db_seq])
               IN  Store(w2, "load_after_stop", f) /\ NewView

\* one frame of the Hot tab
RenderHotTab ==
    \E chosen \in get_random_cold_memo_id(memos) :
        \E a \in {update_cold_spotlight(Spotlit, chosen)} :
            /\ current_spotlight_memo' = a.current_spotlight_memo
            /\ last_spotlight_update' = a.last_spotlight_update
            /\ has_spotlight' = render_has_spotlight(a)
            /\ last' = [op |-> "render_hot_tab", id |-> 0, ok |-> TRUE]
            /\ UNCHANGED <<max_hot_count, memos, hot_stack, new_memo_text, db_memos,
                           db_stack, db_seq, now>>
            /\ UNCHANGED <<cold_spotlight_interval_seconds, instant, filtered, delay_input>>

\* a second passes
TickInstant ==
    /\ instant < MaxInstant
    /\ instant' = instant + 1
    /\ last' = [op |-> "tick", id |-> 0, ok |-> TRUE]
    /\ UNCHANGED <<max_hot_count, memos, hot_stack, new_memo_text, db_memos, db_stack,
                   db_seq, now>>
    /\ UNCHANGED <<cold_spotlight_interval_seconds, current_spotlight_memo,
                   last_spotlight_update, has_spotlight, filtered, delay_input>>

NoFail == {0}
NoSkew == {0}
FailPoints == 0..MaxFail
Skews == 0..MaxSkew
Existing == DOMAIN memos

(* Every operation, on the memos that exist, with storage that works; the   *)
(* clock may move between the two reads of a handler.                      *)
Next ==
    \/ AddMemo(Delays, NoFail, Skews, MaxId)
    \/ MoveToCold(Existing, NoFail)
    \/ MoveToDone(Existing, NoFail, Skews)
    \/ MoveToHot(Existing, NoFail)
    \/ DeleteMemo(Existing, NoFail)
    \/ ShiftUpInHot(Existing, NoFail)
    \/ MoveToTopInHot(Existing, NoFail)
    \/ ReplaceMemo(Existing, NoFail, Skews, MaxId)
    \/ CheckAndPromoteDelayed(NoFail)
    \/ LoadState
    \/ EditDraft(Drafts)
    \/ Tick

Spec == Init /\ [][Next]_vars

(* Runs that only capture and promote, from the empty store; any storage   *)
(* call of a handler may fail.                                             *)
NextCapturePromote ==
    \/ AddMemo(Delays, FailPoints, NoSkew, MaxCaptures)
    \/ MoveToHot(Existing, FailPoints)

SpecCapturePromote == Init /\ [][NextCapturePromote]_vars

(* Runs that only capture, without delay, from the empty store; any        *)
(* storage call may fail and the clock may move between two reads.         *)
NextCapture ==
    \/ AddMemo({None}, FailPoints, Skews, MaxCaptures)
    \/ Tick

SpecCapture == Init /\ [][NextCapture]_vars

(* Runs that only capture, let time pass and poll for due memos, from the  *)
(* empty store: no other operation touches a memo between its capture and  *)
(* its promotion.                                                          *)
NextDelayed ==
    \/ AddMemo(Delays, NoFail, Skews, MaxCaptures)
    \/ CheckAndPromoteDelayed(NoFail)
    \/ Tick

SpecDelayed == Init /\ [][NextDelayed]_vars

\* the tables hold what the memory holds
InSync ==
    /\ db_stack = hot_stack
    /\ DOMAIN db_memos = DOMAIN memos
    /\ \A id \in DOMAIN memos : row_to_memo(db_memos[id], now) = memos[id]

(* Every operation on the stack and the store, on the memos that exist, and *)
(* restarts.  Any storage call of a handler may fail; one failure at a     *)
(* time: while the memory differs from the tables, storage works.          *)
FailOnce == IF InSync THEN FailPoints ELSE NoFail

NextStorageFailure ==
    \/ AddMemo(Delays, FailOnce, NoSkew, MaxId)
    \/ MoveToCold(Existing, FailOnce)
    \/ MoveToDone(Existing, FailOnce, NoSkew)
    \/ MoveToHot(Existing, FailOnce)
    \/ DeleteMemo(Existing, FailOnce)
    \/ ShiftUpInHot(Existing, FailOnce)
    \/ MoveToTopInHot(Existing, FailOnce)
    \/ ReplaceMemo(Existing, FailOnce, NoSkew, MaxId)
    \/ LoadState

SpecStorageFailure == Init /\ [][NextStorageFailure]_vars

(* Runs that capture without delay, archive, promote and reorder, with a   *)
(* capacity of up to MaxCaptures, so that the stack can hold every memo.   *)
NextReorder ==
    \/ AddMemo({None}, NoFail, NoSkew, MaxCaptures)
    \/ MoveToCold(Existing, NoFail)
    \/ MoveToHot(Existing, NoFail)
    \/ ShiftUpInHot(Existing, NoFail)
    \/ MoveToTopInHot(Existing, NoFail)

SpecReorder == InitWith(1..MaxCaptures) /\ [][NextReorder]_vars

(* Runs that capture without delay, archive and delete, and reorder with   *)
(* any id: of a memo in the stack, of a memo outside it, of no memo.       *)
AnyIds == 1..MaxCaptures

NextReorderAny ==
    \/ AddMemo({None}, NoFail, NoSkew, MaxCaptures)
    \/ MoveToCold(Existing, NoFail)
    \/ DeleteMemo(Existing, NoFail)
    \/ ShiftUpInHot(AnyIds, NoFail)
    \/ MoveToTopInHot(AnyIds, NoFail)

SpecReorderAny == InitWith(1..MaxCaptures) /\ [][NextReorderAny]_vars

(* Memos are captured without delay, archived, completed and promoted,     *)
(* and the process stops between two storage calls of one of these         *)
(* operations and is started again.                                        *)
BetweenWrites == 2..MaxFail

NextStop ==
    \/ AddMemo({None}, NoFail, NoSkew, MaxId)
    \/ MoveToCold(Existing, NoFail)
    \/ MoveToDone(Existing, NoFail, NoSkew)
    \/ MoveToHot(Existing, NoFail)
    \/ StopAndLoad(Existing, BetweenWrites)

SpecStop == Init /\ [][NextStop]_vars

(* Memos are captured, archived and deleted; any storage call of a capture *)
(* or of a delete may fail.                                                *)
NextCaptureDeleteFailure ==
    \/ AddMemo(Delays, FailPoints, NoSkew, MaxId)
    \/ MoveToCold(Existing, NoFail)
    \/ DeleteMemo(Existing, FailPoints)

SpecCaptureDeleteFailure == Init /\ [][NextCaptureDeleteFailure]_vars

(* Memos are captured, and archived, completed, promoted and deleted with  *)
(* any id: of a memo, of a deleted memo, of no memo ever captured.         *)
NextMissingId ==
    \/ AddMemo(Delays, NoFail, NoSkew, MaxId)
    \/ MoveToCold(AnyIds, NoFail)
    \/ MoveToDone(AnyIds, NoFail, NoSkew)
    \/ MoveToHot(AnyIds, NoFail)
    \/ DeleteMemo(AnyIds, NoFail)

SpecMissingId == Init /\ [][NextMissingId]_vars

(* The input field: the user types any text of up to MaxText characters,   *)
(* captures it with the Add button, and takes memos back into the field.   *)
NextReplace ==
    \/ EditDraft(Texts)
    \/ AddParsedMemo({None}, NoFail, NoSkew, MaxId)
    \/ ReplaceMemo(Existing, NoFail, NoSkew, MaxId)

SpecReplace == Init /\ [][NextReplace]_vars

(* The input field holds a draft or is empty, memos are captured with the  *)
(* Add button, and replace_memo is called with any id.                     *)
NextReplaceAny ==
    \/ EditDraft({<<>>, <<"a">>})
    \/ AddParsedMemo({None}, NoFail, NoSkew, MaxCaptures)
    \/ MoveToCold(Existing, NoFail)
    \/ ReplaceMemo(AnyIds, NoFail, NoSkew, MaxCaptures)

SpecReplaceAny == InitWith(1..MaxCap) /\ [][NextReplaceAny]_vars

(* Memos are captured and deleted, and the application is restarted.       *)
NextCaptureDelete ==
    \/ AddMemo(Delays, NoFail, NoSkew, MaxCaptures)
    \/ DeleteMemo(Existing, NoFail)
    \/ LoadState

SpecCaptureDelete == Init /\ [][NextCaptureDelete]_vars

(* Memos are captured without delay and moved to the front, and the        *)
(* application is restarted with any max_hot_count in its configuration.   *)
NextReconfigure ==
    \/ AddMemo({None}, NoFail, NoSkew, MaxCaptures)
    \/ MoveToTopInHot(Existing, NoFail)
    \/ Reconfigure(Caps)

SpecReconfigure == Init /\ [][NextReconfigure]_vars

(* The Cold and Done tabs: memos with upper and lower case text are       *)
(* captured at different minutes, archived and completed, and listed.      *)
SearchDrafts == {<<"A", "b">>, <<"a", NL, "B">>}
Searches == {<<>>, <<SP>>, <<"B">>, <<"A", "B">>}

NextSearch ==
    \/ EditDraft(SearchDrafts)
    \/ AddParsedMemo({None}, NoFail, NoSkew, MaxId)
    \/ MoveToCold(Existing, NoFail)
    \/ MoveToDone(Existing, NoFail, NoSkew)
    \/ LoadStateUndated(Existing)
    \/ Tick
    \/ GetFilteredMemos(Statuses, Searches)

SpecSearch == InitWith({MaxCap}) /\ [][NextSearch]_vars

(* The lists of the Cold and Done tabs without a search: three memos are   *)
(* captured, archived and completed at different minutes.                  *)
NextListing ==
    \/ AddMemo({None}, NoFail, NoSkew, MaxCaptures)
    \/ MoveToCold(Existing, NoFail)
    \/ MoveToDone(Existing, NoFail, NoSkew)
    \/ LoadStateUndated(Existing)
    \/ Tick
    \/ GetFilteredMemos({"Cold", "Done"}, {<<>>})

SpecListing == InitWith({MaxCaptures}) /\ [][NextListing]_vars

(* The Hot tab is drawn while seconds pass and memos are captured,         *)
(* archived, promoted, completed and deleted; the spotlight interval is    *)
(* any of 0..MaxInterval.                                                  *)
NextSpotlight ==
    \/ AddMemo({None}, NoFail, NoSkew, MaxId)
    \/ MoveToCold(Existing, NoFail)
    \/ MoveToHot(Existing, NoFail)
    \/ MoveToDone(Existing, NoFail, NoSkew)
    \/ DeleteMemo(Existing, NoFail)
    \/ RenderHotTab
    \/ TickInstant

SpecSpotlight == InitConfig({MaxCap}, 0..MaxInterval) /\ [][NextSpotlight]_vars

(* update() runs at least every 500 ms and polls on every run, and the     *)
(* clock advances: both are weakly fair.  The poll's weak fairness is      *)
(* written out, with "some memo is due" as the condition under which the   *)
(* poll changes the state: either no memo is due infinitely often, or the  *)
(* poll runs infinitely often.  A delay is offered only when it ends       *)
(* within the minutes of the model.                                        *)
DelaysInTime == {d \in Delays : d = None \/ now + unwrap(d) <= MaxTime}

NextPolling ==
    \/ AddMemo(DelaysInTime, NoFail, NoSkew, MaxCaptures)
    \/ DeleteMemo(Existing, NoFail)
    \/ CheckAndPromoteDelayed(NoFail)
    \/ Tick

SpecPolling ==
    /\ Init
    /\ [][NextPolling]_vars
    /\ WF_vars(Tick)
    /\ \/ []<>(due_ids(World(0, 0)) = {})
       \/ []<><<CheckAndPromoteDelayed(NoFail)>>_vars

(* Memos are captured, archived, promoted and completed while minutes     *)
(* pass, and the application is started on tables with a malformed row.    *)
NextMalformed ==
    \/ AddMemo(Delays, NoFail, NoSkew, MaxId)
    \/ MoveToCold(Existing, NoFail)
    \/ MoveToHot(Existing, NoFail)
    \/ MoveToDone(Existing, NoFail, NoSkew)
    \/ Tick
    \/ LoadState
    \/ LoadStateMalformed(Existing)

SpecMalformed == InitWith({MaxCap}) /\ [][NextMalformed]_vars

(* The delay field is edited and memos are captured with the Add button.  *)
DelayTexts ==
    { <<"0", "0", ":", "0", "0">>, <<"0", "0", ":", "0", "1">>, <<"0", ":", "0">>,
      <<"2", "3", ":", "5", "9">>, <<"2", "4", ":", "0", "0">>, <<"0", "0", ":", "6", "0">>,
      <<"9", "9", ":", "9", "9">>, <<"1", "0", "0", ":", "0">>, <<"0", ":", "1", "0", "0">>,
      <<"0", "a", ":", "0", "1">>, <<"0", "0", "0", "1">>, <<"0", ":", "0", ":", "1">>,
      <<>>, <<":">>, <<"1", ":">>, <<":", "1">>, <<"a", ":", "b">> }

NextDelayInput ==
    \/ EditDelayInput(DelayTexts)
    \/ EditDraft({<<"a">>})
    \/ AddButton(NoFail, NoSkew, MaxId)
    \/ Tick

SpecDelayInput == InitWith({MaxCap}) /\ [][NextDelayInput]_vars

(* ------------------------------------------------------------ properties *)
Range(s) == {s[i] : i \in 1..Len(s)}
StatusIds(st) == {id \in DOMAIN memos : memos[id].status = st}

\* C1: from the empty store, after every capture or promote_to_hot call the
\* hot stack is at most max_hot_count long.
C1_StackWithinCapacity == Len(hot_stack) <= max_hot_count

\* a promotion into a full stack of two has evicted a memo
C1_Witness ==
    /\ last.op = "move_to_hot"
    /\ max_hot_count = 2
    /\ Len(hot_stack) = 2
    /\ StatusIds("Cold") # {}

\* C5: with max_hot_count = N, after N+1 captures without delay from the
\* empty store exactly the memo captured first is Cold and the stack holds
\* the other N ids, the most recently captured first.
C5_EvictionDeterminism ==
    Cardinality(DOMAIN memos) = max_hot_count + 1 =>
        /\ DOMAIN memos = 1..(max_hot_count + 1)
        /\ StatusIds("Cold") = {1}
        /\ StatusIds("Hot") = 2..(max_hot_count + 1)
        /\ Len(hot_stack) = max_hot_count
        /\ \A i \in 1..Len(hot_stack) : hot_stack[i] = max_hot_count + 2 - i

\* capacity 2 and captures A, B, C: the stack is [C, B] and A is Cold
C5_Witness ==
    /\ max_hot_count = 2
    /\ last.op = "add_memo"
    /\ hot_stack = <<3, 2>>
    /\ memos[1].status = "Cold"

\* C2: after any sequence of operations every memo has a completion time
\* exactly when its status is Done.
C2_CompletionIffDone ==
    \A id \in DOMAIN memos :
        is_some(memos[id].moved_to_done_date) <=> memos[id].status = "Done"

\* C3: after any sequence of operations no id occurs twice in the hot stack.
C3_NoDuplicateIds ==
    \A i, j \in 1..Len(hot_stack) : i # j => hot_stack[i] # hot_stack[j]

\* C4: after any sequence of operations every id of the hot stack is the id
\* of a memo of the store whose status is Hot.
C4_StackIdsAreHotMemos ==
    \A i \in 1..Len(hot_stack) :
        /\ hot_stack[i] \in DOMAIN memos
        /\ memos[hot_stack[i]].status = "Hot"

\* the steps of capture and promote_to_hot that push id to the stack front
PushStep(id) ==
    /\ last'.ok
    /\ last'.id = id
    /\ id \in DOMAIN memos'
    /\ \/ last'.op = "add_memo" /\ memos'[id].delay_minutes = None
       \/ last'.op = "move_to_hot"

without(s, id) == LET keep(x) == x # id IN SelectSeq(s, keep)

\* C6: when a capture or a promotion pushes an id and the stack becomes
\* longer than max_hot_count, the id at the back, and no other, leaves the
\* stack, its memo becomes Cold, and no other memo changes status.
C6_OneEvictionPerPush ==
    [][\A id \in 1..MaxId :
          LET pushed == <<id>> \o hot_stack
              back == pushed[Len(pushed)]
          IN  (PushStep(id) /\ Len(pushed) > max_hot_count) =>
                  /\ back \in DOMAIN memos'
                  /\ memos'[back].status = "Cold"
                  /\ hot_stack' = without(pushed, back)
                  /\ id # back => memos'[id].status = "Hot"
                  /\ \A j \in DOMAIN memos : j \notin {id, back} => memos'[j] = memos[j]
      ]_vars

\* a capture into a full stack of one has evicted the memo captured before
C6_Witness ==
    /\ last.op = "add_memo"
    /\ last.id = 2
    /\ max_hot_count = 1
    /\ hot_stack = <<2>>
    /\ 1 \in DOMAIN memos
    /\ memos[1].status = "Cold"
    /\ memos[2].status = "Hot"

\* C7: capture creates the memo Delayed exactly when the delay is Some(m)
\* with m > 0; with no delay and with Some(0) the memo is created Hot.
\* (Read right after the capture, for max_hot_count > 0, where a memo
\* created Hot is not archived by its own capture.)
C7_DelayedIffPositiveDelay ==
    (last.op = "add_memo" /\ last.ok /\ max_hot_count > 0) =>
        LET d == memos[last.id].delay_minutes
        IN  IF is_some(d) /\ unwrap(d) > 0
            THEN memos[last.id].status = "Delayed"
            ELSE memos[last.id].status = "Hot"

\* C8: for every max_hot_count, 0 included, right after a capture the new
\* memo is Hot or Delayed, and if it was captured without delay its id is
\* at the front of the stack.
C8_CaptureEndsHotOrDelayed ==
    (last.op = "add_memo" /\ last.ok) =>
        /\ memos[last.id].status \in {"Hot", "Delayed"}
        /\ memos[last.id].delay_minutes = None =>
               (hot_stack # <<>> /\ hot_stack[1] = last.id)

\* C9: after promote_to_hot(id) of an existing memo returns without a
\* storage error the memo is Hot, has no completion time and is at the
\* front of the stack, whatever its status and stack position were.
C9_PromotedIsFrontAndHot ==
    (last.op = "move_to_hot" /\ last.ok /\ last.id \in DOMAIN memos) =>
        /\ memos[last.id].status = "Hot"
        /\ memos[last.id].moved_to_done_date = None
        /\ hot_stack # <<>>
        /\ hot_stack[1] = last.id

\* C10: after archive(id) of an existing memo the memo is Cold and id is not
\* in the stack; no other memo changes status and the other stack ids keep
\* their relative order.
C10_ArchiveFrame ==
    [][\A id \in DOMAIN memos :
          (last'.op = "move_to_cold" /\ last'.id = id /\ last'.ok) =>
              /\ DOMAIN memos' = DOMAIN memos
              /\ memos'[id].status = "Cold"
              /\ id \notin Range(hot_stack')
              /\ \A j \in DOMAIN memos : j # id => memos'[j].status = memos[j].status
              /\ hot_stack' = without(hot_stack, id)
      ]_vars

\* memo 1, captured Hot, was archived and the stack still holds memo 2
C10_Witness ==
    /\ last.op = "move_to_cold"
    /\ last.id = 1
    /\ max_hot_count = 2
    /\ 1 \in DOMAIN memos
    /\ memos[1].status = "Cold"
    /\ memos[1].delay_minutes = None
    /\ hot_stack = <<2>>
    /\ memos[2].status = "Hot"

\* C11: after complete(id) of an existing memo the memo is Done, its
\* completion time is the time of the call, id is not in the stack, and the
\* other stack ids keep their relative order.
C11_CompleteSetsDoneAndTime ==
    [][\A id \in DOMAIN memos :
          (last'.op = "move_to_done" /\ last'.id = id /\ last'.ok) =>
              /\ id \in DOMAIN memos'
              /\ memos'[id].status = "Done"
              /\ memos'[id].moved_to_done_date = Some(now)
              /\ id \notin Range(hot_stack')
              /\ hot_stack' = without(hot_stack, id)
      ]_vars

\* memo 2, captured at minute 0, was completed at minute 1 out of the stack [2, 1]
C11_Witness ==
    /\ last.op = "move_to_done"
    /\ last.id = 2
    /\ now = 1
    /\ memos[2].status = "Done"
    /\ memos[2].creation_date = 0
    /\ memos[2].moved_to_done_date = Some(1)
    /\ hot_stack = <<1>>
    /\ memos[1].status = "Hot"

\* C12: after delete(id) succeeds, whatever the memo's status was, id is in
\* neither the store, the stack, the memos table nor the persisted stack;
\* every other memo is unchanged and the other stack ids keep their order.
C12_DeleteRemovesEverywhere ==
    [][\A id \in DOMAIN memos :
          (last'.op = "delete_memo" /\ last'.id = id /\ last'.ok) =>
              /\ DOMAIN memos' = DOMAIN memos \ {id}
              /\ id \notin Range(hot_stack')
              /\ id \notin DOMAIN db_memos'
              /\ id \notin Range(db_stack')
              /\ \A j \in DOMAIN memos' : memos'[j] = memos[j]
              /\ hot_stack' = without(hot_stack, id)
      ]_vars

\* memo 1 was deleted from the front of the stack [1, 2]; memo 2 is still there
C12_Witness ==
    /\ last.op = "delete_memo"
    /\ last.id = 1
    /\ DOMAIN memos = {2}
    /\ DOMAIN db_memos = {2}
    /\ hot_stack = <<2>>
    /\ db_stack = <<2>>
    /\ db_seq = 2

\* the memos a poll at the current minute finds due
DueNow ==
    {id \in DOMAIN memos :
        /\ memos[id].status = "Delayed"
        /\ memos[id].delay_minutes # None
        /\ memos[id].creation_date + unwrap(memos[id].delay_minutes) <= now}

\* the memos captured with a delay d > 0 that are still Delayed
WaitingIds ==
    {id \in DOMAIN memos :
        /\ memos[id].status = "Delayed"
        /\ memos[id].delay_minutes # None
        /\ unwrap(memos[id].delay_minutes) > 0}

PollStep == last'.op = "check_and_promote_delayed_memos" /\ last'.ok

reverse(s) == [i \in 1..Len(s) |-> s[Len(s) + 1 - i]]
first_n(s, n) == SubSeq(s, 1, IF Len(s) < n THEN Len(s) ELSE n)

\* C14: one poll without storage error promotes every due memo, none of them
\* is Delayed afterwards; each push evicts on its own, so with the due memos
\* pushed in some order the stack is the first max_hot_count ids of the
\* pushes followed by the old stack, the due memos in it are Hot and the
\* ones pushed out of it are Cold.
C14_PollPromotesAllDue ==
    [][PollStep =>
          /\ \A id \in DueNow : memos'[id].status # "Delayed"
          /\ Len(hot_stack') <= max_hot_count
          /\ \E o \in orders(DueNow) :
                 hot_stack' = first_n(reverse(o) \o hot_stack, max_hot_count)
          /\ \A id \in DueNow :
                 memos'[id].status = IF id \in Range(hot_stack') THEN "Hot" ELSE "Cold"
          /\ \A id \in DOMAIN memos :
                 (memos[id].status = "Delayed" /\ id \notin DueNow) => memos'[id] = memos[id]
      ]_vars

\* with room for one, the poll at minute 1 promoted memos 1 and 2 together:
\* one is Hot in the stack, the other was evicted
C14_Witness ==
    /\ last.op = "check_and_promote_delayed_memos"
    /\ max_hot_count = 1
    /\ now = 1
    /\ {1, 2} \subseteq DOMAIN memos
    /\ \A id \in {1, 2} : memos[id].delay_minutes = Some(1) /\ memos[id].creation_date = 0
    /\ {memos[1].status, memos[2].status} = {"Hot", "Cold"}
    /\ Len(hot_stack) = 1

\* C15: after any sequence of successful operations, load_state yields the
\* in-memory stack, as an ordered list, and for every memo the in-memory
\* title, body, status, creation time, completion time and delay.
C15_ReloadEqualsMemory ==
    LET w == load_state(World(0, 0))
    IN  /\ w.ok
        /\ w.hot_stack = hot_stack
        /\ DOMAIN w.memos = DOMAIN memos
        /\ \A id \in DOMAIN memos : w.memos[id] = memos[id]

\* the persisted ids a load keeps: those with a row whose status tag is hot
KeptOnLoad(id) == id \in DOMAIN db_memos /\ db_memos[id].status = "hot"

\* C16: a load drops, without an error, every persisted stack id whose row
\* is missing or not Hot; the other ids keep their persisted order; the
\* cleaned list is written back, so the persisted list equals the in-memory
\* stack and holds nothing a second load would drop.
C16_LoadReconcilesStack ==
    [][last'.op = "load_state" =>
          /\ last'.ok
          /\ hot_stack' = SelectSeq(db_stack, KeptOnLoad)
          /\ db_stack' = hot_stack'
          /\ db_memos' = db_memos
          /\ \A i \in 1..Len(db_stack') :
                 /\ db_stack'[i] \in DOMAIN db_memos'
                 /\ db_memos'[db_stack'[i]].status = "hot"
                 /\ memos'[db_stack'[i]].status = "Hot"
      ]_vars

\* a load dropped one of two persisted ids: memo 1 is Cold and its id was in
\* the persisted stack, memo 2 stays in the stack
C16_Witness ==
    /\ last.op = "load_state"
    /\ last.id = 1
    /\ last.ok
    /\ hot_stack = <<2>>
    /\ db_stack = <<2>>
    /\ 1 \in DOMAIN memos
    /\ memos[1].status = "Cold"

\* what an operation returns when every storage call works
Succeeded(op, id) ==
    CASE op = "add_memo" ->
             {add_memo(World(0, 0), t, b, d) : t \in Titles, b \in Bodies, d \in Delays}
      [] op = "move_to_cold" -> {move_to_cold(World(0, 0), id)}
      [] op = "move_to_done" -> {move_to_done(World(0, 0), id)}
      [] op = "move_to_hot" -> {move_to_hot(World(0, 0), id)}
      [] op = "delete_memo" -> {delete_memo(World(0, 0), id)}
      [] op = "shift_up_in_hot" -> {shift_up_in_hot(World(0, 0), id)}
      [] op = "move_to_top_in_hot" -> {move_to_top_in_hot(World(0, 0), id)}
      [] op = "replace_memo" -> {replace_memo(World(0, 0), id)}
      [] OTHER -> {}

FailedStep == ~last'.ok

\* C17: when a storage write of capture, promote_to_hot, archive, complete,
\* delete, shift_up, move_to_front or replace fails, either every effect of
\* the operation on the store, the stack and the tables has taken place or
\* none has.
C17_FailureIsAllOrNothing ==
    [][FailedStep =>
          \/ UNCHANGED <<memos, hot_stack, new_memo_text, db_memos, db_stack, db_seq>>
          \/ \E w \in Succeeded(last'.op, last'.id) :
                 /\ memos' = w.memos
                 /\ hot_stack' = w.hot_stack
                 /\ new_memo_text' = w.new_memo_text
                 /\ db_memos' = w.db_memos
                 /\ db_stack' = w.db_stack
                 /\ db_seq' = w.db_seq
      ]_vars

C19_PersistedMirrorsMemory ==
    (last.ok /\ last.op \notin {"new", "edit", "tick"}) =>
        /\ db_stack = hot_stack
        /\ DOMAIN db_memos = DOMAIN memos
        /\ \A id \in DOMAIN memos : from_string(db_memos[id].status) = memos[id].status

\* C20: shift_up(id) of an id at position p > 0 swaps it with the id at
\* p - 1 and leaves every other position as it was; at position 0 the stack
\* is unchanged.  No memo changes and the stack keeps its length.
\* (Positions are 1-based here: p > 1, and the front is position 1.)
C20_ShiftUpSwapsWithPredecessor ==
    [][\A id \in DOMAIN memos :
          (last'.op = "shift_up_in_hot" /\ last'.id = id /\ last'.ok
              /\ id \in Range(hot_stack)) =>
              LET p == CHOOSE i \in 1..Len(hot_stack) :
                           hot_stack[i] = id /\ \A j \in 1..(i - 1) : hot_stack[j] # id
              IN  /\ memos' = memos
                  /\ Len(hot_stack') = Len(hot_stack)
                  /\ IF p > 1
                     THEN /\ hot_stack'[p - 1] = id
                          /\ hot_stack'[p] = hot_stack[p - 1]
                          /\ \A k \in 1..Len(hot_stack) :
                                 k \notin {p - 1, p} => hot_stack'[k] = hot_stack[k]
                     ELSE hot_stack' = hot_stack
      ]_vars

\* memo 1, at the back of [3, 2, 1], was shifted up one place
C20_Witness ==
    /\ last.op = "shift_up_in_hot"
    /\ last.id = 1
    /\ last.ok
    /\ hot_stack = <<3, 1, 2>>
    /\ \A id \in {1, 2, 3} : memos[id].status = "Hot"

(* C21: move_to_top_in_hot(id) for an id that is in the stack puts id at    *)
(* position 0, keeps the other ids in their order, keeps the length of the *)
(* stack, changes no memo's status and evicts nothing; when id is already  *)
(* at position 0 the stack does not change.                                *)
MoveToFrontStep ==
    /\ last'.op = "move_to_top_in_hot"
    /\ last'.ok
    /\ last'.id \in Range(hot_stack)

C21_MoveToFrontKeepsTheRest ==
    [][MoveToFrontStep =>
        /\ hot_stack' # <<>>
        /\ hot_stack'[1] = last'.id
        /\ Tail(hot_stack') = without(hot_stack, last'.id)
        /\ Len(hot_stack') = Len(hot_stack)
        /\ Range(hot_stack') = Range(hot_stack)
        /\ \A id \in DOMAIN memos :
               id \in DOMAIN memos' /\ memos'[id].status = memos[id].status
        /\ (hot_stack[1] = last'.id => hot_stack' = hot_stack)]_vars

(* C22: replace_memo(id) on an existing memo with a non-empty draft first   *)
(* captures the draft as a new memo without delay (Hot, at the front of     *)
(* the stack), then puts the target's text into the input field and        *)
(* deletes the target: afterwards id is in neither the store nor the stack *)
(* and the store holds exactly one new memo.  With an empty draft no memo  *)
(* is created and only the target is removed.                              *)
ReplaceStep ==
    /\ last'.op = "replace_memo"
    /\ last'.ok
    /\ last'.id \in DOMAIN memos

C22_ReplaceCapturesDraftThenDeletes ==
    [][ReplaceStep =>
        /\ last'.id \notin DOMAIN memos'
        /\ last'.id \notin Range(hot_stack')
        /\ new_memo_text' = replace_text(memos[last'.id])
        /\ \A id \in DOMAIN memos \ {last'.id} : id \in DOMAIN memos'
        /\ IF new_memo_text # <<>>
           THEN /\ Cardinality(DOMAIN memos' \ DOMAIN memos) = 1
                /\ \A n \in DOMAIN memos' \ DOMAIN memos :
                       /\ memos'[n].status = "Hot"
                       /\ memos'[n].delay_minutes = None
                       /\ hot_stack' # <<>>
                       /\ hot_stack'[1] = n
           ELSE /\ DOMAIN memos' = DOMAIN memos \ {last'.id}
                /\ \A id \in DOMAIN memos' : memos'[id] = memos[id]
                /\ hot_stack' = without(hot_stack, last'.id)]_vars

(* C23: the text replace_memo hands back is the title alone when the body   *)
(* is empty, otherwise the title, one line break and the body; capturing   *)
(* that text again, split at its first line break, gives a memo with the   *)
(* same title and the same body.                                           *)
C23_ReplaceTextRoundTrip ==
    [][ReplaceStep =>
        LET memo == memos[last'.id]
        IN  /\ memo.body = <<>> => new_memo_text' = memo.title
            /\ memo.body # <<>> => new_memo_text' = memo.title \o <<NL>> \o memo.body
            /\ parse_memo_text(new_memo_text').title = memo.title
            /\ parse_memo_text(new_memo_text').body = memo.body]_vars

\* a memo with a body has been taken back into the input field
C23_Witness ==
    /\ last.op = "replace_memo"
    /\ last.ok
    /\ last.id \notin DOMAIN memos
    /\ new_memo_text = <<"a", NL, NL, "a">>
    /\ parse_memo_text(new_memo_text) = [title |-> <<"a">>, body |-> <<NL, "a">>]

(* C24: the id of a newly captured memo differs from the id of every memo  *)
(* captured before it, deleted ones included, and no operation changes the *)
(* id of a memo that exists.  (db_seq is the largest id given so far: the   *)
(* ids given so far are 1..db_seq.)                                        *)
C24_IdsAreNeverReused ==
    [][/\ db_seq' >= db_seq
       /\ \A id \in DOMAIN memos' \ DOMAIN memos :
              id > db_seq /\ id <= db_seq' /\ memos'[id].id = id
       /\ \A id \in DOMAIN memos \cap DOMAIN memos' : memos'[id].id = memos[id].id]_vars

\* memo 1 was deleted, and the memo captured after that got id 2
C24_Witness ==
    /\ last.op = "add_memo"
    /\ last.id = 2
    /\ DOMAIN memos = {2}
    /\ memos[2].id = 2

(* C25: after every operation, a load whose persisted stack list is longer *)
(* than the configured max_hot_count and move_to_top_in_hot included, the  *)
(* stack holds at most max_hot_count ids.                                  *)
C25_EveryOperationKeepsCapacity ==
    [][Len(hot_stack') <= max_hot_count']_vars

(* C26: get_filtered_memos(status, s) returns exactly the memos whose       *)
(* status is the target status and whose title or body contains s without  *)
(* regard to case (the empty s is contained in every text); the query      *)
(* changes neither the memo map nor the stack.                             *)
same_letter(x, y) == to_lowercase_char(x) = to_lowercase_char(y)

occurs_in(text, s) ==
    \E at \in 0..(Len(text) - Len(s)) : \A k \in 1..Len(s) : same_letter(text[at + k], s[k])

found(id, s) == occurs_in(memos[id].title, s) \/ occurs_in(memos[id].body, s)

QueryStep == last'.op = "get_filtered_memos"

C26_SearchReturnsContaining ==
    [][QueryStep =>
        /\ Range(filtered'.memos) =
               {id \in DOMAIN memos : memos[id].status = filtered'.status
                                      /\ found(id, filtered'.search)}
        /\ Cardinality(Range(filtered'.memos)) = Len(filtered'.memos)
        /\ UNCHANGED <<memos, hot_stack>>]_vars

(* C26, amended: a search string without a character that is not white     *)
(* space returns every memo of the status; any other is looked for as      *)
(* typed, without regard to case.                                          *)
C26_SearchReturnsContainingOrAll ==
    [][QueryStep =>
        /\ Range(filtered'.memos) =
               {id \in DOMAIN memos :
                    /\ memos[id].status = filtered'.status
                    /\ \/ \A k \in 1..Len(filtered'.search) : is_whitespace(filtered'.search[k])
                       \/ found(id, filtered'.search)}
        /\ Cardinality(Range(filtered'.memos)) = Len(filtered'.memos)
        /\ UNCHANGED <<memos, hot_stack>>]_vars

\* two Cold memos, and the search for "AB" lists the one titled "Ab"
C26_Witness ==
    /\ last.op = "get_filtered_memos"
    /\ filtered = [status |-> "Cold", search |-> <<"A", "B">>, memos |-> <<1>>]
    /\ StatusIds("Cold") = {1, 2}
    /\ memos[1].title = <<"A", "b">>

(* C27: a Cold query is ordered by creation_date, newest first; a Done     *)
(* query by moved_to_done_date, newest first, with the memos that have no  *)
(* moved_to_done_date after those that have one and ordered among each     *)
(* other by creation_date, newest first.                                   *)
C27_ListsAreNewestFirst ==
    [][QueryStep =>
        LET r == filtered'.memos
        IN  \A i, j \in 1..Len(r) :
                i < j =>
                    LET a == memos[r[i]]
                        b == memos[r[j]]
                    IN  /\ filtered'.status = "Cold" => a.creation_date >= b.creation_date
                        /\ filtered'.status = "Done" =>
                            /\ is_some(a.moved_to_done_date) /\ is_some(b.moved_to_done_date)
                                   => unwrap(a.moved_to_done_date) >= unwrap(b.moved_to_done_date)
                            /\ ~is_some(a.moved_to_done_date) => ~is_some(b.moved_to_done_date)
                            /\ ~is_some(a.moved_to_done_date) /\ ~is_some(b.moved_to_done_date)
                                   => a.creation_date >= b.creation_date]_vars

\* the Done list: the dated memo first although it is the oldest, then the
\* two undated ones, the newer of them first
C27_Witness ==
    /\ last.op = "get_filtered_memos"
    /\ filtered.status = "Done"
    /\ filtered.memos = <<1, 3, 2>>
    /\ is_some(memos[1].moved_to_done_date)
    /\ ~is_some(memos[2].moved_to_done_date)
    /\ ~is_some(memos[3].moved_to_done_date)
    /\ memos[3].creation_date > memos[2].creation_date

(* C28: with cold_spotlight_interval_seconds = 0 the spotlight never        *)
(* samples and the pick stays None.  With an interval k > 0 a frame        *)
(* samples when none was taken before, and else exactly when at least k     *)
(* seconds have passed since the last sample; between samples the pick     *)
(* does not change; a sampled pick is a memo that is Cold at that moment,  *)
(* or None when no memo is Cold.                                           *)
Sampled == last_spotlight_update' # last_spotlight_update

SampleIsDue ==
    \/ last_spotlight_update = None
    \/ instant - unwrap(last_spotlight_update) >= cold_spotlight_interval_seconds

C28_SpotlightSamplesOnInterval ==
    [][/\ cold_spotlight_interval_seconds = 0 =>
              current_spotlight_memo' = None /\ last_spotlight_update' = None
       /\ cold_spotlight_interval_seconds > 0 /\ last'.op = "render_hot_tab" =>
              (Sampled <=> SampleIsDue)
       /\ Sampled =>
              /\ last'.op = "render_hot_tab"
              /\ last_spotlight_update' = Some(instant)
              /\ IF StatusIds("Cold") = {} THEN current_spotlight_memo' = None
                 ELSE /\ is_some(current_spotlight_memo')
                      /\ unwrap(current_spotlight_memo') \in StatusIds("Cold")
       /\ ~Sampled => current_spotlight_memo' = current_spotlight_memo]_vars

\* a frame at second 3 sampled and picked memo 2 of the two Cold memos
C28_Witness ==
    /\ last.op = "render_hot_tab"
    /\ cold_spotlight_interval_seconds = 2
    /\ last_spotlight_update = Some(3)
    /\ current_spotlight_memo = Some(2)
    /\ StatusIds("Cold") = {1, 2}
    /\ has_spotlight

(* C29: when the picked memo is promoted, completed or deleted before the  *)
(* next sample, the spotlight is not shown until the next sample, and the  *)
(* pick is not replaced before the interval has passed; the spotlight is   *)
(* shown only for a pick that exists and is Cold.                          *)
PickIsCold ==
    /\ is_some(current_spotlight_memo')
    /\ unwrap(current_spotlight_memo') \in DOMAIN memos'
    /\ memos'[unwrap(current_spotlight_memo')].status = "Cold"

FrameStep == last'.op = "render_hot_tab"

C29_HiddenUntilNextSample ==
    [][/\ FrameStep /\ ~Sampled /\ is_some(current_spotlight_memo) /\ ~has_spotlight
              => ~has_spotlight'
       /\ FrameStep /\ has_spotlight' => PickIsCold
       /\ Sampled => SampleIsDue
       /\ ~Sampled => current_spotlight_memo' = current_spotlight_memo]_vars

(* C29, amended: a frame shows the spotlight exactly when the interval is  *)
(* positive and the pick exists and is Cold in that frame, so a pick that  *)
(* was promoted, completed or deleted is hidden, and shown again when it   *)
(* is archived again; the pick is replaced only by a sample that is due.   *)
C29_ShownWhilePickIsCold ==
    [][/\ FrameStep =>
              (has_spotlight' <=> cold_spotlight_interval_seconds > 0 /\ PickIsCold)
       /\ Sampled => SampleIsDue
       /\ ~Sampled => current_spotlight_memo' = current_spotlight_memo]_vars

\* within the interval, a frame hides the pick, memo 1, which is not Cold
\* any more, although memo 2 is Cold
C29_Witness ==
    /\ last.op = "render_hot_tab"
    /\ cold_spotlight_interval_seconds = 2
    /\ last_spotlight_update = Some(0)
    /\ instant = 1
    /\ current_spotlight_memo = Some(1)
    /\ 1 \in DOMAIN memos
    /\ memos[1].status = "Done"
    /\ StatusIds("Cold") = {2}
    /\ ~has_spotlight

(* C30: no operation changes the creation_date, the delay_minutes, the      *)
(* title or the body of a memo that exists, and delay_minutes is Some       *)
(* exactly for the memos that were captured with a delay (those that       *)
(* capture made Delayed).                                                  *)
C30_CaptureFieldsAreFrozen ==
    [][/\ \A id \in DOMAIN memos \cap DOMAIN memos' :
              /\ memos'[id].creation_date = memos[id].creation_date
              /\ memos'[id].delay_minutes = memos[id].delay_minutes
              /\ memos'[id].title = memos[id].title
              /\ memos'[id].body = memos[id].body
       /\ \A id \in DOMAIN memos' \ DOMAIN memos :
              is_some(memos'[id].delay_minutes) <=> memos'[id].status = "Delayed"]_vars

(* C31: while the clock advances and update() keeps polling, every memo     *)
(* that is Delayed is later not Delayed or deleted, and a poll at or after  *)
(* creation_date + delay_minutes does not leave it Delayed.                *)
C31_DelayedEventuallyLeaves ==
    /\ \A id \in 1..MaxCaptures :
           (id \in DOMAIN memos /\ memos[id].status = "Delayed")
               ~> (id \notin DOMAIN memos \/ memos[id].status # "Delayed")
    /\ [][\A id \in StatusIds("Delayed") :
              PollStep /\ now >= memos[id].creation_date + unwrap(memos[id].delay_minutes)
                  => id \in DOMAIN memos' /\ memos'[id].status # "Delayed"]_vars

\* memo 2, captured at minute 1 without a wait, and memo 1, captured at
\* minute 0 to wait a minute, have both left Delayed by the poll of minute 1
C31_Witness ==
    /\ last.op = "check_and_promote_delayed_memos"
    /\ now = 1
    /\ DOMAIN memos = {1, 2}
    /\ memos[1].delay_minutes = Some(1) /\ memos[1].creation_date = 0
    /\ memos[2].delay_minutes = Some(0) /\ memos[2].creation_date = 1
    /\ StatusIds("Delayed") = {}

(* C32: a load succeeds on a malformed memo row: every row is loaded, a   *)
(* row whose status tag is none of hot, cold, done, delayed is loaded as a *)
(* Hot memo, and a row whose creation_date is not a timestamp is loaded    *)
(* with the time of the load as its creation_date; a known tag and a       *)
(* timestamp that parses are loaded as written.                            *)
KnownTags == {"hot", "cold", "done", "delayed"}
C32_LoadDefaultsMalformedRows ==
    last.op = "load_state" =>
        /\ last.ok
        /\ DOMAIN memos = DOMAIN db_memos
        /\ \A id \in DOMAIN db_memos :
               /\ db_memos[id].status \notin KnownTags => memos[id].status = "Hot"
               /\ db_memos[id].status \in KnownTags
                      => memos[id].status = from_string(db_memos[id].status)
               /\ db_memos[id].creation_date = NotATimestamp => memos[id].creation_date = now
               /\ db_memos[id].creation_date # NotATimestamp
                      => memos[id].creation_date = db_memos[id].creation_date

C32_Witness ==
    /\ last.op = "load_state" /\ last.ok
    /\ now = 1
    /\ \E id \in DOMAIN memos :
           /\ db_memos[id].status = "archived"
           /\ db_memos[id].creation_date = NotATimestamp
           /\ memos[id].status = "Hot"
           /\ memos[id].creation_date = 1

(* C33: a capture with the Add button while the delay field holds a text *)
(* that is not a valid HH:MM value (a part that is not a number, a number  *)
(* of parts other than two, hours above 23 or minutes above 59) succeeds   *)
(* and creates a Hot memo without delay.                                   *)
ValidHHMM(s) ==
    LET parts == split_colon(s)
    IN  /\ Len(parts) = 2
        /\ is_some(parse_u32(parts[1])) /\ unwrap(parse_u32(parts[1])) <= 23
        /\ is_some(parse_u32(parts[2])) /\ unwrap(parse_u32(parts[2])) <= 59

AddButtonStep == last'.op = "add_parsed_memo" /\ db_seq' = db_seq + 1

C33_InvalidDelayInputIsNoDelay ==
    [][AddButtonStep /\ ~ValidHHMM(delay_input)
           => /\ last'.ok
              /\ memos'[db_seq'].status = "Hot"
              /\ memos'[db_seq'].delay_minutes = None]_vars

\* every memo whose status is Hot occurs in the hot stack
HotMemosAreStacked == StatusIds("Hot") \subseteq Range(hot_stack)

(* C34: starting from an empty store and without storage failure, after   *)
(* every operation every memo whose status is Hot occurs in the hot stack, *)
(* so that the ids of the stack are exactly the ids of the Hot memos.      *)
C34_StackIsExactlyTheHotMemos ==
    /\ HotMemosAreStacked
    /\ Range(hot_stack) = StatusIds("Hot")

\* how often x occurs in s
occurrences(s, x) == Cardinality({k \in 1..Len(s) : s[k] = x})

(* C35: shift_up_in_hot(id) and move_to_top_in_hot(id) reorder the stack   *)
(* for every id, in the stack or not: the stack after the call holds each  *)
(* id as often as the stack before, so an id that was not in the stack is  *)
(* not added.                                                              *)
C35_ReorderIsPermutation ==
    [][last'.op \in {"shift_up_in_hot", "move_to_top_in_hot"}
           => \A id \in AnyIds : occurrences(hot_stack', id) = occurrences(hot_stack, id)]_vars

(* C36: when the process stops between two storage writes of one         *)
(* operation, the state that the next load produces has every id of the    *)
(* hot stack referring to an existing Hot memo, and every memo whose       *)
(* status is Hot in the hot stack.                                         *)
C36_LoadAfterStopIsConsistent ==
    last.op = "load_after_stop" =>
        /\ \A i \in 1..Len(hot_stack) :
               hot_stack[i] \in DOMAIN memos /\ memos[hot_stack[i]].status = "Hot"
        /\ \A id \in DOMAIN memos : memos[id].status = "Hot" => id \in Range(hot_stack)

(* C37: when the storage delete of delete_memo(id) fails, or the storage  *)
(* insert of add_memo fails, the operation returns the error and the store *)
(* and the stack in memory are as before the call.  Both are the first     *)
(* storage call of their handler.                                          *)
FirstCallFails == World(1, 0)

C37_FirstWriteFailureChangesNothing ==
    [][/\ \A id \in Ids :
              LET w == delete_memo(FirstCallFails, id)
              IN  /\ ~w.ok
                  /\ w.memos = memos /\ w.hot_stack = hot_stack
                  /\ w.db_memos = db_memos
       /\ \A title \in Titles, body \in Bodies, delay \in Delays :
              LET w == add_memo(FirstCallFails, title, body, delay)
              IN  /\ ~w.ok
                  /\ w.memos = memos /\ w.hot_stack = hot_stack
                  /\ w.db_memos = db_memos /\ w.db_seq = db_seq
       /\ (FailedStep /\ last'.op = "delete_memo" /\ last'.id \in DOMAIN db_memos')
              => UNCHANGED <<memos, hot_stack>>
       /\ (FailedStep /\ last'.op = "add_memo" /\ db_seq' = db_seq)
              => UNCHANGED <<memos, hot_stack>>]_vars

\* the delete of memo 1 failed at its first storage call: the memo is still
\* in the store, in the table and in the stack
C37_Witness ==
    /\ last.op = "delete_memo" /\ last.id = 1 /\ ~last.ok
    /\ DOMAIN memos = {1, 2}
    /\ 1 \in DOMAIN db_memos
    /\ hot_stack = <<2, 1>>

(* C38: move_to_cold, move_to_done, move_to_hot and delete_memo called    *)
(* with an id that no memo has return success and leave the store as it    *)
(* was: no memo is created and no memo changes; move_to_hot leaves the     *)
(* stack as it was, so the id is not added to it.                          *)
MissingIdStep ==
    /\ last'.op \in {"move_to_cold", "move_to_done", "move_to_hot", "delete_memo"}
    /\ last'.id \notin DOMAIN memos

C38_MissingIdChangesNoMemo ==
    [][MissingIdStep =>
          /\ last'.ok
          /\ memos' = memos
          /\ last'.op = "move_to_hot" => hot_stack' = hot_stack
          /\ last'.id \notin Range(hot_stack) => last'.id \notin Range(hot_stack')]_vars

\* memo 1 was deleted, and a promotion of id 1 has left memo 2 and the
\* stack alone
C38_Witness ==
    /\ last.op = "move_to_hot" /\ last.id = 1 /\ last.ok
    /\ DOMAIN memos = {2}
    /\ memos[2].status = "Hot"
    /\ hot_stack = <<2>>

(* C39: replace_memo(id) affects only the target and the memo created    *)
(* from the draft: every other memo keeps its status and its stack         *)
(* membership, also with a draft and a full stack; and with an id that no  *)
(* memo has it leaves the store and the stack unchanged, also when a draft *)
(* is pending.                                                             *)
C39_ReplaceTouchesTargetAndDraftOnly ==
    [][(last'.op = "replace_memo" /\ last'.ok) =>
          /\ \A other \in DOMAIN memos \ {last'.id} :
                 /\ other \in DOMAIN memos'
                 /\ memos'[other].status = memos[other].status
                 /\ other \in Range(hot_stack') <=> other \in Range(hot_stack)
          /\ last'.id \notin DOMAIN memos => memos' = memos /\ hot_stack' = hot_stack]_vars

\* with an empty draft every other memo is left as it was
ReplaceWithoutDraftKeepsOthers ==
    [][(last'.op = "replace_memo" /\ last'.ok /\ trim(new_memo_text) = <<>>) =>
          \A other \in DOMAIN memos \ {last'.id} :
              /\ other \in DOMAIN memos'
              /\ memos'[other] = memos[other]
              /\ other \in Range(hot_stack') <=> other \in Range(hot_stack)]_vars

(* C40: status Delayed is entered only at capture: no step gives status   *)
(* Delayed to a memo that exists and is Hot, Cold or Done; and, starting   *)
(* from the empty store, every memo whose status is Delayed has a          *)
(* delay_minutes, so the poll skips no Delayed memo for lack of one.       *)
C40_DelayedOnlyAtCapture ==
    [][/\ \A id \in DOMAIN memos \cap DOMAIN memos' :
              memos[id].status # "Delayed" => memos'[id].status # "Delayed"
       /\ \A id \in DOMAIN memos' :
              memos'[id].status = "Delayed" => is_some(memos'[id].delay_minutes)
       /\ last'.op = "check_and_promote_delayed_memos" /\ last'.ok
              => \A id \in DOMAIN memos :
                     (memos[id].status = "Delayed" /\ id \in DOMAIN memos'
                      /\ memos'[id].status = "Delayed")
                         => now < memos[id].creation_date + unwrap(memos[id].delay_minutes)]_vars

\* memo 1 was captured with a delay, promoted by the poll and archived,
\* while memo 2 still waits
C40_Witness ==
    /\ last.op = "move_to_cold" /\ last.id = 1
    /\ DOMAIN memos = {1, 2}
    /\ is_some(memos[1].delay_minutes) /\ memos[1].status = "Cold"
    /\ memos[2].status = "Delayed" /\ memos[2].delay_minutes = Some(1)

====
